---- MODULE Spec2Model ----
(***************************************************************************)
(* Model of the analytics dashboard client: the Dashboard page (dataset    *)
(* kind selection, fetch, loading/error views), the four pivot tables it   *)
(* renders and the four chart components (stacked bars, donut).            *)
(*                                                                         *)
(* Strings that the code sorts or parses are sequences of one-character    *)
(* strings, ordered by UTF-16 code unit as Array.prototype.sort() does.    *)
(* acv and count are integers; a quotient is kept as a fraction, with the  *)
(* JavaScript results NaN (0/0) and Infinity (x/0) kept apart.             *)
(***************************************************************************)
EXTENDS Integers, Sequences, FiniteSets, TLC

VARIABLES
    selectedDataType,   \* Dashboard state: the selected dataset kind
    loading,            \* Dashboard state: loading flag
    error,              \* Dashboard state: error message or Null
    data,               \* Dashboard state: the rows of the last successful fetch
    dataFrom,           \* history: the kind whose fetch returned `data` ("none" at mount)
    inflight,           \* the kinds of the api calls not yet answered
    effectPending,      \* a commit changed selectedDataType and the fetch effect has not run
    view,               \* what the last commit shows: spinner, error text, or charts + pivot
    dialogState         \* state of the mounted chart component: its drill-down dialog

vars ==
    <<selectedDataType, loading, error, data, dataFrom, inflight, effectPending, view,
      dialogState>>

----------------------------------------------------------------------------
(* Bounds of the model *)

\* rows per dataset in the aggregation specification
MaxRows == 2
\* rows per fetched dataset in the Dashboard specification
MaxFetchRows == 1
\* rows per dataset in the drill-down specification
MaxDrillRows == 3
----------------------------------------------------------------------------
(* Strings *)

Null == "null"

\* UTF-16 code units of the characters the sample labels use
CharCode ==
    ("$" :> 36) @@ ("-" :> 45) @@ ("0" :> 48) @@ ("1" :> 49) @@ ("2" :> 50) @@
    ("3" :> 51) @@ ("4" :> 52) @@ ("5" :> 53) @@ ("A" :> 65) @@ ("B" :> 66) @@
    ("K" :> 75) @@ ("Q" :> 81) @@ ("a" :> 97) @@ ("b" :> 98)

Digits == {"0", "1", "2", "3", "4", "5"}

\* a < b in the default (code unit) string order
RECURSIVE StrLess(_, _)
StrLess(a, b) ==
    IF b = <<>> THEN FALSE
    ELSE IF a = <<>> THEN TRUE
    ELSE IF CharCode[Head(a)] # CharCode[Head(b)]
         THEN CharCode[Head(a)] < CharCode[Head(b)]
         ELSE StrLess(Tail(a), Tail(b))

----------------------------------------------------------------------------
(* Array helpers *)

\* Array.from(new Set(s)): first occurrences, in order
RECURSIVE Uniq(_)
Uniq(s) ==
    IF s = <<>> THEN <<>>
    ELSE LET r == Uniq(SubSeq(s, 1, Len(s) - 1))
             x == s[Len(s)]
         IN  IF \E i \in 1..Len(r) : r[i] = x THEN r ELSE Append(r, x)

\* the set of a sequence's elements
Range(s) == {s[i] : i \in DOMAIN s}

\* Array.prototype.sort(compare): stable; less holds the pairs <<a, b>> of
\* elements with compare(a, b) < 0. The element at index i lands after every
\* element that compares lower and after every earlier element that compares
\* equal.
SortBy(s, less) ==
    LET pos == [i \in DOMAIN s |->
                    1 + Cardinality({ j \in DOMAIN s :
                            \/ <<s[j], s[i]>> \in less
                            \/ <<s[i], s[j]>> \notin less /\ j < i })]
    IN  [k \in DOMAIN s |-> s[CHOOSE i \in DOMAIN s : pos[i] = k]]

\* the value of a property the object does not have
Undefined == << "undefined" >>

\* Array.prototype.sort() on strings: code unit order, undefined elements last
SortStrings(s) ==
    SortBy(s, { p \in Range(s) \X Range(s) :
                    /\ p[1] # Undefined
                    /\ p[2] = Undefined \/ StrLess(p[1], p[2]) })

RECURSIVE SumSeq(_)
SumSeq(s) == IF s = <<>> THEN 0 ELSE Head(s) + SumSeq(Tail(s))

----------------------------------------------------------------------------
(* Rows *)

Kinds == {"teams", "customer-type", "industries", "acv-range"}

\* the kind-specific field of a row (Dashboard.getValue, DataItem)
FieldOf(kind) ==
    CASE kind = "teams" -> "Team"
      [] kind = "customer-type" -> "Cust_Type"
      [] kind = "industries" -> "Acct_Industry"
      [] kind = "acv-range" -> "ACV_Range"

Has(d, f) == f \in DOMAIN d

\* d[f] === s, for a string s
FieldEq(d, f, s) == Has(d, f) /\ d[f] = s

\* d[f] || ''
OrEmpty(d, f) == IF Has(d, f) THEN d[f] ELSE <<>>

\* d.closed_fiscal_quarter; a row without the property holds Undefined there
QuarterOf(d) == d.closed_fiscal_quarter

Quarters == { <<"2","0","2","3","-","Q","4">>, <<"2","0","2","4","-","Q","1">> }

ExistingCustomer ==
    <<"E","x","i","s","t","i","n","g"," ","C","u","s","t","o","m","e","r">>

NewCustomer == <<"N","e","w"," ","C","u","s","t","o","m","e","r">>

\* a Cust_Type value that is neither of the two the code names
Partner == <<"P","a","r","t","n","e","r">>

\* sample category values of each kind, as the DataSource may return them
SampleValues(kind) ==
    CASE kind = "teams" -> { <<"B">>, <<"a">> }
      [] kind = "industries" -> { <<"A","b">>, <<"A","B">> }
      [] kind = "customer-type" -> { ExistingCustomer, NewCustomer, Partner }
      [] kind = "acv-range" ->
            { <<"$","5","0","K","-","$","1","0","0","K">>,
              <<"$","0","-","$","1","0","K">>,
              <<"$","1","0","K","-","$","5","0","K">> }

\* the <<count, acv>> of a row: an empty bucket, one customer of acv 1, and a
\* bucket whose count is 0 while its acv is not
Amounts == { <<0, 0>>, <<1, 1>>, <<0, 1>> }

\* the rows a fetch of `kind` may return: the kind's field is present or absent
RowsOf(kind) ==
    LET base == { [closed_fiscal_quarter |-> q, count |-> m[1], acv |-> m[2]] :
                    q \in Quarters, m \in Amounts }
    IN  base \cup { (FieldOf(kind) :> v) @@ b : v \in SampleValues(kind), b \in base }

Responses(kind, n) == UNION { [1..m -> RowsOf(kind)] : m \in 0..n }

\* the responses whose rows all have count 1 and acv 1
UnitResponses(kind, n) ==
    UNION { [1..m -> { r \in RowsOf(kind) : r.count = 1 /\ r.acv = 1 }] : m \in 0..n }

----------------------------------------------------------------------------
(* Numbers *)

\* x || 0
OrZero(x) == x

\* n / d in JavaScript, for integers n >= 0 and d >= 0: a fraction, Infinity or NaN
Div(n, d) ==
    IF d # 0 THEN [tag |-> "finite", num |-> n, den |-> d]
    ELSE IF n # 0 THEN [tag |-> "Infinity", num |-> n, den |-> 0]
    ELSE [tag |-> "NaN", num |-> 0, den |-> 0]

\* the number 0 as a quotient
Zero == [tag |-> "finite", num |-> 0, den |-> 1]

\* r * 100
Times100(r) == IF r.tag = "finite" THEN [r EXCEPT !.num = 100 * r.num] ELSE r

IsZero(r) == r.tag = "finite" /\ r.num = 0

----------------------------------------------------------------------------
(* Pivot tables of the Dashboard page *)

\* data.find(test): the index of the first row of d among those that pass the
\* test (matching, a set of indices of d), 0 when there is none
FindIndex(d, matching) ==
    IF matching = {} THEN 0
    ELSE CHOOSE i \in matching : \A j \in matching : i <= j

\* QuartersOf without the .sort(): the quarters in the order they arrive
QuartersOf_Unsorted(d) == Uniq([i \in DOMAIN d |-> QuarterOf(d[i])])

\* Array.from(new Set(data.map(d => d.closed_fiscal_quarter))).sort()
QuartersOf(d) == SortStrings(Uniq([i \in DOMAIN d |-> QuarterOf(d[i])]))

\* Array.from(new Set(data.map(d => d[f] || '')))
CategoriesOf(d, f) == Uniq([i \in DOMAIN d |-> OrEmpty(d[i], f)])

\* groupedData: for each category and quarter, acv and count of the first row
\* whose field f equals the category and whose quarter is the quarter, else 0
GroupedData(d, f, cats, quarters) ==
    [i \in DOMAIN cats |->
        [j \in DOMAIN quarters |->
            LET k == FindIndex(d, { n \in DOMAIN d :
                                   /\ FieldEq(d[n], f, cats[i])
                                   /\ QuarterOf(d[n]) = quarters[j] })
            IN  [acv   |-> IF k = 0 THEN 0 ELSE OrZero(d[k].acv),
                 count |-> IF k = 0 THEN 0 ELSE OrZero(d[k].count)]]]

\* quarterTotals: per quarter, the sums over all rows of that quarter
QuarterTotals(d, quarters) ==
    [j \in DOMAIN quarters |->
        LET quarterData == SelectSeq(d, LAMBDA r : QuarterOf(r) = quarters[j])
        IN  [quarter |-> quarters[j],
             acv     |-> SumSeq([k \in DOMAIN quarterData |-> quarterData[k].acv]),
             count   |-> SumSeq([k \in DOMAIN quarterData |-> quarterData[k].count])]]

\* grandTotal: the sums of quarterTotals
GrandTotal(quarterTotals) ==
    [acv   |-> SumSeq([j \in DOMAIN quarterTotals |-> quarterTotals[j].acv]),
     count |-> SumSeq([j \in DOMAIN quarterTotals |-> quarterTotals[j].count])]

\* the percentage of a body cell: quarterTotal.acv > 0 ? acv / quarterTotal.acv * 100 : 0
CellPercentage(acv, quarterTotalAcv) ==
    IF quarterTotalAcv > 0 THEN Times100(Div(acv, quarterTotalAcv)) ELSE Zero

\* the percentage of the Total column: (total.acv / grandTotal.acv) * 100
TotalPercentage(totalAcv, grandTotalAcv) == Times100(Div(totalAcv, grandTotalAcv))

\* the "% of Total" cells of the Total row: the literal 100%
TotalRowPercentage == [tag |-> "finite", num |-> 100, den |-> 1]

\* the table all four render functions build, for field f and category list cats
PivotTable(d, f, cats) ==
    LET quarters      == QuartersOf(d)
        groupedData   == GroupedData(d, f, cats, quarters)
        quarterTotals == QuarterTotals(d, quarters)
        grandTotal    == GrandTotal(quarterTotals)
        rowTotal(i)   ==
            [acv   |-> SumSeq([j \in DOMAIN quarters |-> OrZero(groupedData[i][j].acv)]),
             count |-> SumSeq([j \in DOMAIN quarters |-> OrZero(groupedData[i][j].count)])]
    IN  [quarters      |-> quarters,
         categories    |-> cats,
         cells         |-> groupedData,
         percentage    |-> [i \in DOMAIN cats |-> [j \in DOMAIN quarters |->
                              CellPercentage(groupedData[i][j].acv, quarterTotals[j].acv)]],
         rowTotals     |-> [i \in DOMAIN cats |-> rowTotal(i)],
         share         |-> [i \in DOMAIN cats |->
                              TotalPercentage(rowTotal(i).acv, grandTotal.acv)],
         quarterTotals |-> quarterTotals,
         grandTotal    |-> grandTotal,
         totalRowPercentage |-> [j \in DOMAIN quarters |-> TotalRowPercentage],
         totalRowShare |-> TotalRowPercentage]

customerTypes == << ExistingCustomer, NewCustomer >>

\* renderCustomerTypeTable with the customer types taken from the data
renderCustomerTypeTable_FromData(d) ==
    PivotTable(d, "Cust_Type",
               SelectSeq(customerTypes,
                         LAMBDA c : \E k \in DOMAIN d : FieldEq(d[k], "Cust_Type", c)))

renderCustomerTypeTable(d) == PivotTable(d, "Cust_Type", customerTypes)

renderTeamTable(d) == PivotTable(d, "Team", SortStrings(CategoriesOf(d, "Team")))

renderIndustryTable(d) ==
    PivotTable(d, "Acct_Industry", SortStrings(CategoriesOf(d, "Acct_Industry")))

\* the index of the first character after position `from` that is not a digit
RECURSIVE DigitsEnd(_, _)
DigitsEnd(s, from) ==
    IF from <= Len(s) /\ s[from] \in Digits THEN DigitsEnd(s, from + 1) ELSE from

\* parseInt of a digit string
RECURSIVE ParseInt(_)
ParseInt(s) ==
    IF s = <<>> THEN 0
    ELSE 10 * ParseInt(SubSeq(s, 1, Len(s) - 1)) + (CharCode[s[Len(s)]] - 48)

\* range.match(/\$(\d+)K/): where the leftmost "$", digits, "K" starts, 0 when nowhere
MatchDollarDigitsK(s) ==
    LET ok == { i \in DOMAIN s :
                    /\ s[i] = "$"
                    /\ LET e == DigitsEnd(s, i + 1)
                       IN  e > i + 1 /\ e <= Len(s) /\ s[e] = "K" }
    IN  IF ok = {} THEN 0 ELSE CHOOSE i \in ok : \A j \in ok : i <= j

\* getMinValue: match ? parseInt(match[1]) : 0
getMinValue(range) ==
    LET i == MatchDollarDigitsK(range)
    IN  IF i = 0 THEN 0 ELSE ParseInt(SubSeq(range, i + 1, DigitsEnd(range, i + 1) - 1))

\* .sort((a, b) => getMinValue(a) - getMinValue(b))
SortRanges(s) ==
    SortBy(s, { p \in Range(s) \X Range(s) : getMinValue(p[1]) - getMinValue(p[2]) < 0 })

renderACVRangeTable(d) == PivotTable(d, "ACV_Range", SortRanges(CategoriesOf(d, "ACV_Range")))

\* the table the Dashboard renders for the selected kind
TableOf(kind, d) ==
    CASE kind = "customer-type" -> renderCustomerTypeTable(d)
      [] kind = "teams" -> renderTeamTable(d)
      [] kind = "industries" -> renderIndustryTable(d)
      [] kind = "acv-range" -> renderACVRangeTable(d)

----------------------------------------------------------------------------
(* Chart components *)

schemeCategory10 ==
    << "#1f77b4", "#ff7f0e", "#2ca02c", "#d62728", "#9467bd",
       "#8c564b", "#e377c2", "#7f7f7f", "#bcbd22", "#17becf" >>

customerTypeColors == << "#2196f3", "#ff9800" >>

\* d3.scaleOrdinal().domain(domain).range(range) applied to domain[i]
ScaleOrdinal(range, i) == range[((i - 1) % Len(range)) + 1]

MaxOf(S) == CHOOSE x \in S : \A y \in S : y <= x

\* sortedQuarters without the .sort(): the keys of the group in insertion order
sortedQuarters_Unsorted(d) == Uniq([i \in DOMAIN d |-> QuarterOf(d[i])])

\* the sorted keys of d3.group(data, d => d.closed_fiscal_quarter)
sortedQuarters(d) == SortStrings(Uniq([i \in DOMAIN d |-> QuarterOf(d[i])]))

\* processedData: per quarter, for each series the acv of the first row of the
\* quarter whose field f equals the series' category (else 0), and their sum
ProcessedData(d, f, cats) ==
    LET quarters == sortedQuarters(d)
    IN  [j \in DOMAIN quarters |->
            LET quarterData ==
                    SelectSeq(d, LAMBDA r : QuarterOf(r) = quarters[j])
                value(i) ==
                    LET k == FindIndex(quarterData, { n \in DOMAIN quarterData :
                                                    FieldEq(quarterData[n], f, cats[i]) })
                    IN  IF k = 0 THEN 0 ELSE OrZero(quarterData[k].acv)
            IN  [quarter |-> quarters[j],
                 values  |-> [i \in DOMAIN cats |-> value(i)],
                 total   |-> SumSeq([i \in DOMAIN cats |-> value(i)])]]

\* the donut's input: per category, d3.sum of the acv of all rows of the category
CategoryTotals(d, f, cats) ==
    [i \in DOMAIN cats |->
        LET rows == SelectSeq(d, LAMBDA r : FieldEq(r, f, cats[i]))
        IN  [type  |-> cats[i],
             value |-> SumSeq([k \in DOMAIN rows |-> rows[k].acv])]]

\* d3.stack().keys(keys).order(stackOrderNone).offset(stackOffsetNone) for one
\* data point: series i spans << y0, y1 >>, from the top of series i - 1 (0 for
\* the first) to that plus its own value
StackOf(values) ==
    [i \in DOMAIN values |->
        LET y0 == SumSeq(SubSeq(values, 1, i - 1))
        IN  << y0, y0 + values[i] >>]

\* d3.format('.0f')(value / 1000): the nearest integer, for an integer value >= 0
FormatThousands(value) == (value + 500) \div 1000

\* the in-bar label of a segment of TeamCharts, IndustryCharts and
\* ACVRangeCharts: value > 0 ? `$${...}K` : ''
SegmentLabel(value) ==
    IF value > 0 THEN << "$", FormatThousands(value), "K" >> ELSE <<>>

\* the in-bar label of a segment of CustomerTypeCharts: `$${...}K`
CustomerTypeSegmentLabel(value) == << "$", FormatThousands(value), "K" >>

\* renderBarChart: bands, series in key order, one color per series, value
\* scale from 0 to yMax, the stacked segments and their labels; guarded tells
\* the three components whose label tests value > 0 from CustomerTypeCharts
renderBarChart(processedData, cats, colors, guarded) ==
    [quarters |-> [j \in DOMAIN processedData |-> processedData[j].quarter],
     series   |-> cats,
     values   |-> [j \in DOMAIN processedData |-> processedData[j].values],
     total    |-> [j \in DOMAIN processedData |-> processedData[j].total],
     stack    |-> [j \in DOMAIN processedData |-> StackOf(processedData[j].values)],
     label    |-> [j \in DOMAIN processedData |->
                     LET s == StackOf(processedData[j].values)
                     IN  [i \in DOMAIN cats |->
                            IF guarded THEN SegmentLabel(s[i][2] - s[i][1])
                            ELSE CustomerTypeSegmentLabel(s[i][2] - s[i][1])]],
     color    |-> [i \in DOMAIN cats |-> ScaleOrdinal(colors, i)],
     yMax     |-> OrZero(MaxOf({processedData[j].total : j \in DOMAIN processedData}))]

\* the arc and legend label: value / d3.sum(data, d => d.value)
ArcShare(value, sum) == Div(value, sum)

\* d3.pie().value(d => d.value): the arcs are laid out from angle 0 in
\* descending order of value (the default sortValues; the sort is stable), and
\* returned in the order of the data. An angle is kept as the sum of the values
\* laid out before it: the angle is that sum times 2 pi / sum of all values.
PieOf(values) ==
    LET n     == Len(values)
        index == SortBy([i \in 1..n |-> i],
                        { p \in (1..n) \X (1..n) : values[p[2]] < values[p[1]] })
        at    == [i \in 1..n |-> CHOOSE k \in 1..n : index[k] = i]
    IN  [i \in 1..n |->
            LET startAngle == SumSeq([k \in 1..(at[i] - 1) |-> values[index[k]]])
            IN  [index |-> at[i], startAngle |-> startAngle,
                 endAngle |-> startAngle + values[i]]]

\* renderDonutChart: one arc and one legend row per entry, colored by its index
renderDonutChart(totals, colors) ==
    LET sum == SumSeq([i \in DOMAIN totals |-> totals[i].value])
    IN  [types  |-> [i \in DOMAIN totals |-> totals[i].type],
         value  |-> [i \in DOMAIN totals |-> totals[i].value],
         color  |-> [i \in DOMAIN totals |-> ScaleOrdinal(colors, i)],
         label  |-> [i \in DOMAIN totals |-> ArcShare(totals[i].value, sum)],
         arcs   |-> PieOf([i \in DOMAIN totals |-> totals[i].value]),
         center |-> sum]

\* the effect of a chart component: nothing is drawn for an empty data array
Charts(d, f, cats, colors, guarded) ==
    IF Len(d) = 0 THEN [drawn |-> FALSE]
    ELSE [drawn |-> TRUE,
          bar   |-> renderBarChart(ProcessedData(d, f, cats), cats, colors, guarded),
          donut |-> renderDonutChart(CategoryTotals(d, f, cats), colors)]

\* TeamCharts without the .sort() of the team names
TeamCharts_Unsorted(d) == Charts(d, "Team", CategoriesOf(d, "Team"), schemeCategory10, TRUE)

TeamCharts(d) == Charts(d, "Team", SortStrings(CategoriesOf(d, "Team")), schemeCategory10, TRUE)

IndustryCharts(d) ==
    Charts(d, "Acct_Industry", SortStrings(CategoriesOf(d, "Acct_Industry")), schemeCategory10,
           TRUE)

ACVRangeCharts(d) ==
    Charts(d, "ACV_Range", SortRanges(CategoriesOf(d, "ACV_Range")), schemeCategory10, TRUE)

\* the series 'existing' and 'new' are looked up by these two Cust_Type values
CustomerTypeCharts(d) == Charts(d, "Cust_Type", customerTypes, customerTypeColors, FALSE)

ChartOf(kind, d) ==
    CASE kind = "customer-type" -> CustomerTypeCharts(d)
      [] kind = "teams" -> TeamCharts(d)
      [] kind = "industries" -> IndustryCharts(d)
      [] kind = "acv-range" -> ACVRangeCharts(d)

----------------------------------------------------------------------------
(* The Dashboard page *)

\* totalCustomers, totalACV and averageACV of the Dashboard body
Summary(d) ==
    LET totalCustomers == SumSeq([i \in DOMAIN d |-> d[i].count])
        totalACV       == SumSeq([i \in DOMAIN d |-> d[i].acv])
    IN  [totalCustomers |-> totalCustomers,
         totalACV       |-> totalACV,
         averageACV     |-> IF totalCustomers > 0 THEN Div(totalACV, totalCustomers)
                            ELSE Zero]

\* the Average ACV card of the Teams page, over the rows of the selected quarter
TeamsPageAverageACV(teams, selectedQuarter) ==
    Summary(SelectSeq(teams, LAMBDA r : QuarterOf(r) = selectedQuarter)).averageACV

\* the Average ACV cell of a row of the Teams page table: team.acv / team.count
TeamsPageRowAverage(team) == Div(team.acv, team.count)

\* useState initial value of dialogState in CustomerTypeCharts and ACVRangeCharts
ClosedDialog == [open |-> FALSE, type |-> <<>>, data |-> <<>>, color |-> ""]

\* Render without the early return of the loading view
Render_NoLoadingReturn(kind, ld, err, d, from) ==
    IF err # Null THEN [screen |-> "error", message |-> err]
    ELSE [screen |-> "dashboard", kind |-> kind, source |-> from,
          summary |-> Summary(d),
          chart |-> ChartOf(kind, d), pivot |-> TableOf(kind, d)]

\* Render without the early return of the error view
Render_NoErrorReturn(kind, ld, err, d, from) ==
    IF ld THEN [screen |-> "loading"]
    ELSE [screen |-> "dashboard", kind |-> kind, source |-> from,
          summary |-> Summary(d),
          chart |-> ChartOf(kind, d), pivot |-> TableOf(kind, d)]

\* what the component returns for a state: the spinner, the error text, or the
\* kind selector with the charts and the pivot table of the selected kind
Render(kind, ld, err, d, from) ==
    IF ld THEN [screen |-> "loading"]
    ELSE IF err # Null THEN [screen |-> "error", message |-> err]
    ELSE [screen |-> "dashboard", kind |-> kind, source |-> from,
          summary |-> Summary(d),
          chart |-> ChartOf(kind, d), pivot |-> TableOf(kind, d)]

\* useState initial values; the mount effect has not run yet
Init ==
    /\ selectedDataType = "teams"
    /\ loading = TRUE
    /\ error = Null
    /\ data = <<>>
    /\ dataFrom = "none"
    /\ inflight = {}
    /\ effectPending = TRUE
    /\ view = Render("teams", TRUE, Null, <<>>, "none")
    /\ dialogState = ClosedDialog

\* useEffect(fetchData, [selectedDataType]) up to the await: setLoading(true), api call
FetchEffect ==
    /\ effectPending
    /\ effectPending' = FALSE
    /\ loading' = TRUE
    /\ inflight' = inflight \cup {selectedDataType}
    /\ view' = Render(selectedDataType, TRUE, error, data, dataFrom)
    /\ dialogState' = ClosedDialog
    /\ UNCHANGED <<selectedDataType, error, data, dataFrom>>

\* FetchSuccess without the finally block's setLoading(false)
FetchSuccess_KeepsLoading(kind, result) ==
    /\ kind \in inflight
    /\ inflight' = inflight \ {kind}
    /\ data' = result
    /\ dataFrom' = kind
    /\ loading' = loading
    /\ view' = Render(selectedDataType, loading, error, result, kind)
    /\ dialogState' = ClosedDialog
    /\ UNCHANGED <<selectedDataType, error, effectPending>>

\* the api call of `kind` resolves: setData(result), finally setLoading(false)
FetchSuccess(kind, result) ==
    /\ kind \in inflight
    /\ inflight' = inflight \ {kind}
    /\ data' = result
    /\ dataFrom' = kind
    /\ loading' = FALSE
    /\ view' = Render(selectedDataType, FALSE, error, result, kind)
    /\ dialogState' = ClosedDialog
    /\ UNCHANGED <<selectedDataType, error, effectPending>>

\* FetchFailure that schedules the fetch effect again
FetchFailure_Retry(kind) ==
    /\ kind \in inflight
    /\ inflight' = inflight \ {kind}
    /\ error' = "Failed to fetch data"
    /\ loading' = FALSE
    /\ view' = Render(selectedDataType, FALSE, "Failed to fetch data", data, dataFrom)
    /\ dialogState' = ClosedDialog
    /\ effectPending' = TRUE
    /\ UNCHANGED <<selectedDataType, data, dataFrom>>

\* the api call of `kind` rejects: setError(...), finally setLoading(false)
FetchFailure(kind) ==
    /\ kind \in inflight
    /\ inflight' = inflight \ {kind}
    /\ error' = "Failed to fetch data"
    /\ loading' = FALSE
    /\ view' = Render(selectedDataType, FALSE, "Failed to fetch data", data, dataFrom)
    /\ dialogState' = ClosedDialog
    /\ UNCHANGED <<selectedDataType, data, dataFrom, effectPending>>

\* SelectKind with the selector rendered in the error view too
SelectKind_InErrorView(kind) ==
    /\ view.screen \in {"dashboard", "error"}
    /\ ~effectPending
    /\ ~dialogState.open
    /\ kind # selectedDataType
    /\ selectedDataType' = kind
    /\ effectPending' = TRUE
    /\ view' = Render(kind, loading, error, data, dataFrom)
    /\ dialogState' = ClosedDialog
    /\ UNCHANGED <<loading, error, data, dataFrom, inflight>>

\* Select onChange: setSelectedDataType(kind) and the commit that follows; the
\* selector exists only in the dashboard view, the effect of the previous
\* commit has run before the next event is handled, and the open Dialog is
\* modal. The chart component of the new kind mounts with its initial state.
SelectKind(kind) ==
    /\ view.screen = "dashboard"
    /\ ~effectPending
    /\ ~dialogState.open
    /\ kind # selectedDataType
    /\ selectedDataType' = kind
    /\ effectPending' = TRUE
    /\ view' = Render(kind, loading, error, data, dataFrom)
    /\ dialogState' = ClosedDialog
    /\ UNCHANGED <<loading, error, data, dataFrom, inflight>>

\* the (type, color) pairs the click handlers of the drawn donut's arcs pass on;
\* the arc of an entry of value 0 spans no angle and has no area to click
DonutEntries ==
    IF view.screen = "dashboard" /\ view.chart.drawn /\ ~effectPending
    THEN { << view.chart.donut.types[i], view.chart.donut.color[i] >> :
             i \in { k \in DOMAIN view.chart.donut.types : view.chart.donut.value[k] > 0 } }
    ELSE {}

\* handleTypeClick that stores the first color of the scale, not the clicked arc's
handleTypeClick_FirstColor(type, color) ==
    /\ view.screen = "dashboard" /\ view.kind = "customer-type"
    /\ dialogState' = [open  |-> TRUE,
                       type  |-> type,
                       data  |-> SelectSeq(data, LAMBDA d : FieldEq(d, "Cust_Type", type)),
                       color |-> customerTypeColors[1]]
    /\ UNCHANGED <<selectedDataType, loading, error, data, dataFrom, inflight,
                   effectPending, view>>

\* CustomerTypeCharts.handleTypeClick(type, color), from a click on a donut arc
handleTypeClick(type, color) ==
    /\ view.screen = "dashboard" /\ view.kind = "customer-type"
    /\ dialogState' = [open  |-> TRUE,
                       type  |-> type,
                       data  |-> SelectSeq(data, LAMBDA d : FieldEq(d, "Cust_Type", type)),
                       color |-> color]
    /\ UNCHANGED <<selectedDataType, loading, error, data, dataFrom, inflight,
                   effectPending, view>>

\* handleRangeClick with data.find in place of data.filter
handleRangeClick_Find(range, color) ==
    /\ view.screen = "dashboard" /\ view.kind = "acv-range"
    /\ dialogState' =
          [open  |-> TRUE,
           type  |-> range,
           data  |-> LET rows == SelectSeq(data, LAMBDA d : FieldEq(d, "ACV_Range", range))
                     IN  IF rows = <<>> THEN <<>> ELSE << rows[1] >>,
           color |-> color]
    /\ UNCHANGED <<selectedDataType, loading, error, data, dataFrom, inflight,
                   effectPending, view>>

\* ACVRangeCharts.handleRangeClick(range, color); dialogState.range is kept in
\* the field `type`
handleRangeClick(range, color) ==
    /\ view.screen = "dashboard" /\ view.kind = "acv-range"
    /\ dialogState' = [open  |-> TRUE,
                       type  |-> range,
                       data  |-> SelectSeq(data, LAMBDA d : FieldEq(d, "ACV_Range", range)),
                       color |-> color]
    /\ UNCHANGED <<selectedDataType, loading, error, data, dataFrom, inflight,
                   effectPending, view>>

\* handleClose that resets the whole dialog state to its initial value
handleClose_Reset ==
    /\ dialogState.open
    /\ dialogState' = ClosedDialog
    /\ UNCHANGED <<selectedDataType, loading, error, data, dataFrom, inflight,
                   effectPending, view>>

\* handleClose: the close button, the backdrop or the Dialog's onClose
handleClose ==
    /\ dialogState.open
    /\ dialogState' = [dialogState EXCEPT !.open = FALSE]
    /\ UNCHANGED <<selectedDataType, loading, error, data, dataFrom, inflight,
                   effectPending, view>>

\* the rows of the Dialog's table body: dialogState.data.map(...)
DialogRows == dialogState.data

\* the steps of the Dashboard page; a fetch returns up to MaxFetchRows rows, each
\* of count 1 and acv 1
Next ==
    \/ FetchEffect
    \/ \E kind \in inflight : \E result \in UnitResponses(kind, MaxFetchRows) :
          FetchSuccess(kind, result)
    \/ \E kind \in Kinds : FetchFailure(kind)
    \/ \E kind \in Kinds : SelectKind(kind)
    \/ \E e \in DonutEntries : handleTypeClick(e[1], e[2])
    \/ \E e \in DonutEntries : handleRangeClick(e[1], e[2])
    \/ handleClose

Spec == Init /\ [][Next]_vars

\* the awaited api call settles: the promise resolves or rejects
DataSourceAnswers ==
    \/ \E kind \in inflight : \E result \in UnitResponses(kind, MaxFetchRows) :
          FetchSuccess(kind, result)
    \/ \E kind \in inflight : FetchFailure(kind)

\* the Dashboard page with a DataSource that eventually answers every call
SpecLive == Spec /\ WF_vars(DataSourceAnswers)

----------------------------------------------------------------------------
(* Aggregation and charts of one loaded dataset: the Dashboard is waiting   *)
(* for the fetch of some kind, and the response is any dataset of up to     *)
(* MaxRows rows.                                                            *)

InitAgg ==
    /\ selectedDataType \in Kinds
    /\ loading = TRUE
    /\ error = Null
    /\ data = <<>>
    /\ dataFrom = "teams"
    /\ inflight = {selectedDataType}
    /\ effectPending = FALSE
    /\ view = Render(selectedDataType, TRUE, Null, <<>>, "teams")
    /\ dialogState = ClosedDialog

NextAgg ==
    \E kind \in inflight : \E result \in Responses(kind, MaxRows) :
        FetchSuccess(kind, result)

SpecAgg == InitAgg /\ [][NextAgg]_vars

----------------------------------------------------------------------------
(* The drill-down dialog of a loaded dataset: the Dashboard shows the       *)
(* customer-type or the acv-range kind over any dataset of up to            *)
(* MaxDrillRows rows, each of count 1 and acv 1.                            *)

DrillKinds == {"customer-type", "acv-range"}

InitDrill ==
    /\ selectedDataType \in DrillKinds
    /\ loading = FALSE
    /\ error = Null
    /\ data \in UnitResponses(selectedDataType, MaxDrillRows)
    /\ dataFrom = selectedDataType
    /\ inflight = {}
    /\ effectPending = FALSE
    /\ view = Render(selectedDataType, FALSE, Null, data, selectedDataType)
    /\ dialogState = ClosedDialog

NextDrill ==
    \/ \E e \in DonutEntries : handleTypeClick(e[1], e[2])
    \/ \E e \in DonutEntries : handleRangeClick(e[1], e[2])
    \/ handleClose

SpecDrill == InitDrill /\ [][NextDrill]_vars

----------------------------------------------------------------------------
(* Aggregation of a dataset whose rows may lack closed_fiscal_quarter: the  *)
(* response is any dataset of up to MaxRows rows of count 1 and acv 1, with *)
(* or without a quarter.                                                    *)

\* the row r without its quarter: reading the property gives undefined
WithoutQuarter(r) == [r EXCEPT !.closed_fiscal_quarter = Undefined]

RawRowsOf(kind) ==
    LET rows == { r \in RowsOf(kind) : r.count = 1 /\ r.acv = 1 }
    IN  rows \cup { WithoutQuarter(r) : r \in rows }

RawResponses(kind, n) == UNION { [1..m -> RawRowsOf(kind)] : m \in 0..n }

NextRaw ==
    \E kind \in inflight : \E result \in RawResponses(kind, MaxRows) :
        FetchSuccess(kind, result)

SpecRaw == InitAgg /\ [][NextRaw]_vars

----------------------------------------------------------------------------
(* Properties *)

Shown == view.screen = "dashboard"

Drawn == Shown /\ view.chart.drawn

\* the field the views of the shown kind read
ShownField == FieldOf(view.kind)

\* the sum of a field over all cells of a pivot table
CellSum(pivot, fld) ==
    SumSeq([i \in DOMAIN pivot.cells |->
        SumSeq([j \in DOMAIN pivot.quarters |-> pivot.cells[i][j][fld]])])

\* the sum of a field over the cells of column j
ColumnSum(pivot, j, fld) ==
    SumSeq([i \in DOMAIN pivot.cells |-> pivot.cells[i][j][fld]])

(* C1: whenever the charts and the pivot table of a kind are rendered, the   *)
(* data they are computed from was returned by the fetch for that kind, and  *)
(* from the selection of a kind until its fetch completes the Dashboard      *)
(* shows the Loading state.                                                  *)
C1_RenderedDataIsOfSelectedKind ==
    /\ Shown => view.source = view.kind
    /\ (effectPending \/ inflight # {}) => view.screen = "loading"

(* C3: the acv over all pivot cells sums to grandTotal.acv, and the count    *)
(* over all pivot cells sums to grandTotal.count.                            *)
C3_CellsSumToGrandTotal ==
    Shown =>
        /\ CellSum(view.pivot, "acv") = view.pivot.grandTotal.acv
        /\ CellSum(view.pivot, "count") = view.pivot.grandTotal.count

(* C4: for every quarter the cells of the quarter sum to its quarterTotal    *)
(* (acv and count), and the row total of the stacked bars of that quarter    *)
(* equals the quarterTotal's acv of the pivot table.                         *)
C4_QuarterCellsSumToQuarterTotal ==
    Shown =>
        \A j \in DOMAIN view.pivot.quarters :
            /\ ColumnSum(view.pivot, j, "acv") = view.pivot.quarterTotals[j].acv
            /\ ColumnSum(view.pivot, j, "count") = view.pivot.quarterTotals[j].count
            /\ view.chart.drawn =>
                  /\ view.chart.bar.quarters[j] = view.pivot.quarters[j]
                  /\ view.chart.bar.total[j] = view.pivot.quarterTotals[j].acv

\* the rows of d that are the first of their (quarter, category)
FirstOccurrences(d, f) ==
    LET same(a, b) == /\ a.closed_fiscal_quarter = b.closed_fiscal_quarter
                      /\ OrEmpty(a, f) = OrEmpty(b, f)
        keep == { i \in DOMAIN d : \A j \in 1..(i - 1) : ~same(d[j], d[i]) }
        n == Cardinality(keep)
        idx == [k \in 1..n |-> CHOOSE i \in keep : Cardinality({j \in keep : j < i}) = k - 1]
    IN  [k \in 1..n |-> d[idx[k]]]

HasDuplicates(d, f) == Len(FirstOccurrences(d, f)) < Len(d)

(* C5: with duplicate (quarter, category) rows only the first row counts in  *)
(* every derived value: the pivot cells, the bar segments, the quarter       *)
(* totals, the donut's category totals and the grand total are those of the  *)
(* dataset with the later duplicates removed.                                *)
C5_FirstDuplicateWinsEverywhere ==
    Shown =>
        LET first == FirstOccurrences(data, ShownField)
            p == TableOf(view.kind, first)
            c == ChartOf(view.kind, first)
        IN  /\ view.pivot.cells = p.cells
            /\ view.pivot.quarterTotals = p.quarterTotals
            /\ view.pivot.grandTotal = p.grandTotal
            /\ view.chart.drawn =>
                  /\ view.chart.bar.values = c.bar.values
                  /\ view.chart.donut.value = c.donut.value

\* every reordering of the rows of d
Reorderings(d) ==
    IF Len(d) = 0 THEN {d}
    ELSE { [i \in DOMAIN d |-> d[p[i]]] : p \in Permutations(DOMAIN d) }

\* the cell of a category and a quarter, looked up by value
CellOf(pivot, cat, q) ==
    LET i == CHOOSE i \in DOMAIN pivot.categories : pivot.categories[i] = cat
        j == CHOOSE j \in DOMAIN pivot.quarters : pivot.quarters[j] = q
    IN  pivot.cells[i][j]

\* the values a reordering of the input must leave alone, category order aside:
\* p and c are the pivot table and the charts of the reordered input
SameAggregates(v, p, c) ==
        /\ p.quarters = v.pivot.quarters
        /\ Range(p.categories) = Range(v.pivot.categories)
        /\ \A cat \in Range(p.categories) : \A q \in Range(p.quarters) :
              CellOf(p, cat, q) = CellOf(v.pivot, cat, q)
        /\ p.quarterTotals = v.pivot.quarterTotals
        /\ p.grandTotal = v.pivot.grandTotal
        /\ c.drawn = v.chart.drawn
        /\ c.drawn =>
              /\ c.bar.quarters = v.chart.bar.quarters
              /\ c.bar.total = v.chart.bar.total
              /\ { <<c.donut.types[i], c.donut.value[i]>> : i \in DOMAIN c.donut.types }
                 = { <<v.chart.donut.types[i], v.chart.donut.value[i]>> :
                        i \in DOMAIN v.chart.donut.types }
              /\ c.donut.center = v.chart.donut.center

SameCategoryOrder(v, p, c) ==
    /\ p.categories = v.pivot.categories
    /\ v.chart.drawn => c.drawn /\ c.bar.series = v.chart.bar.series

AscendingByMinValue(s) ==
    \A a, b \in DOMAIN s : a < b => getMinValue(s[a]) <= getMinValue(s[b])

C7_CustomerTypeUniverseIsFixed ==
    (Shown /\ view.kind = "customer-type") =>
        /\ view.pivot.categories = << ExistingCustomer, NewCustomer >>
        /\ DOMAIN view.pivot.cells = 1..2
        /\ \A i \in 1..2 : \A j \in DOMAIN view.pivot.quarters :
              /\ j \in DOMAIN view.pivot.cells[i]
              /\ (~\E k \in DOMAIN data :
                       /\ FieldEq(data[k], "Cust_Type", view.pivot.categories[i])
                       /\ data[k].closed_fiscal_quarter = view.pivot.quarters[j])
                  => view.pivot.cells[i][j] = [acv |-> 0, count |-> 0]
        /\ view.chart.drawn =>
              /\ view.chart.bar.series = << ExistingCustomer, NewCustomer >>
              /\ view.chart.donut.types = << ExistingCustomer, NewCustomer >>
              /\ \A j \in DOMAIN view.chart.bar.values : Len(view.chart.bar.values[j]) = 2

\* the data holds a third Cust_Type and no Existing Customer row
C7_Witness ==
    /\ Drawn /\ view.kind = "customer-type"
    /\ \E k \in DOMAIN data : FieldEq(data[k], "Cust_Type", Partner) /\ data[k].acv > 0
    /\ \E k \in DOMAIN data : FieldEq(data[k], "Cust_Type", NewCustomer)
    /\ ~\E k \in DOMAIN data : FieldEq(data[k], "Cust_Type", ExistingCustomer)
    /\ view.pivot.cells[1][1] = [acv |-> 0, count |-> 0]

\* the quotients r[i] are finite and add up to 1 (times `scale`)
SumsTo(r, scale) ==
    /\ \A i \in DOMAIN r : r[i].tag = "finite"
    /\ \E den \in { r[i].den : i \in DOMAIN r } :
          /\ \A i \in DOMAIN r : r[i].den = den
          /\ SumSeq([i \in DOMAIN r |-> r[i].num]) = scale * den

(* C8: the category shares of the donut labels and of the pivot's Total      *)
(* column sum to 1 (100 percent) when the grand total acv is positive, and   *)
(* every share is 0 when the grand total acv is 0.                           *)
C8_SharesSumToOne ==
    Shown =>
        /\ IF view.pivot.grandTotal.acv > 0
           THEN SumsTo(view.pivot.share, 100)
           ELSE \A i \in DOMAIN view.pivot.share : IsZero(view.pivot.share[i])
        /\ view.chart.drawn =>
              IF view.pivot.grandTotal.acv > 0
              THEN SumsTo(view.chart.donut.label, 1)
              ELSE \A i \in DOMAIN view.chart.donut.label : IsZero(view.chart.donut.label[i])

(* C9: every quotient with a zero denominator is 0, never NaN or Infinity:   *)
(* the donut share, the Total column share, the cell percentage, the summary *)
(* average acv and the per-row average acv of the Teams page.                *)
C9_ZeroDenominatorYieldsZero ==
    Shown =>
        /\ \A i \in DOMAIN view.pivot.share : view.pivot.share[i].tag = "finite"
        /\ \A i \in DOMAIN view.pivot.percentage : \A j \in DOMAIN view.pivot.quarters :
              view.pivot.percentage[i][j].tag = "finite"
        /\ view.chart.drawn =>
              \A i \in DOMAIN view.chart.donut.label : view.chart.donut.label[i].tag = "finite"
        /\ view.summary.averageACV.tag = "finite"
        /\ view.kind = "teams" =>
              /\ \A k \in DOMAIN data : TeamsPageRowAverage(data[k]).tag = "finite"
              /\ \A q \in Quarters : TeamsPageAverageACV(data, q).tag = "finite"

(* C10: the categories are in the same order in the stacked-bar series, in   *)
(* the donut and legend entries and in the pivot rows, and a category has    *)
(* the same color in the bar chart and in the donut, for all four kinds.     *)
C10_SameCategoryOrderEverywhere ==
    Drawn =>
        /\ view.chart.bar.series = view.pivot.categories
        /\ view.chart.donut.types = view.pivot.categories
        /\ \A i \in DOMAIN view.chart.bar.series : \A k \in DOMAIN view.chart.donut.types :
              view.chart.bar.series[i] = view.chart.donut.types[k]
                  => view.chart.bar.color[i] = view.chart.donut.color[k]

\* two categories arrive in the opposite of their display order
C10_Witness ==
    /\ Drawn
    /\ view.kind # "customer-type"
    /\ \A k \in DOMAIN data : Has(data[k], ShownField)
    /\ Len(view.pivot.categories) = 2
    /\ CategoriesOf(data, ShownField) =
          << view.pivot.categories[2], view.pivot.categories[1] >>
    /\ view.chart.bar.color[1] # view.chart.bar.color[2]
    /\ view.chart.donut.color = view.chart.bar.color

\* the integer of a "$<digits>K" token at the start of a label, 0 without one
LeadingTokenValue(label) ==
    LET e == DigitsEnd(label, 2)
    IN  IF Len(label) >= 3 /\ label[1] = "$" /\ e > 2 /\ e <= Len(label) /\ label[e] = "K"
        THEN ParseInt(SubSeq(label, 2, e - 1))
        ELSE 0

ExpectedRangeOrder ==
    << <<"$","0","-","$","1","0","K">>,
       <<"$","1","0","K","-","$","5","0","K">>,
       <<"$","5","0","K","-","$","1","0","0","K">> >>

\* the index of x in the sequence s, 0 when x is not in s
IndexIn(s, x) == FindIndex(s, { i \in DOMAIN s : s[i] = x })

(* C11: the acv-range categories are ascending by the integer of the label's *)
(* leading "$<digits>K" token (0 without one), ties keep their input order,  *)
(* and the labels "$0-$10K", "$10K-$50K", "$50K-$100K" come out in this      *)
(* order whatever the arrival order of their rows.                           *)
C11_RangesAscendByLeadingToken ==
    (Shown /\ view.kind = "acv-range") =>
        LET cats  == view.pivot.categories
            input == CategoriesOf(data, "ACV_Range")
        IN  /\ view.chart.drawn => view.chart.bar.series = cats
            /\ \A a, b \in DOMAIN cats : a < b =>
                  /\ LeadingTokenValue(cats[a]) <= LeadingTokenValue(cats[b])
                  /\ LeadingTokenValue(cats[a]) = LeadingTokenValue(cats[b])
                        => IndexIn(input, cats[a]) < IndexIn(input, cats[b])
                  /\ (IndexIn(ExpectedRangeOrder, cats[a]) > 0
                        /\ IndexIn(ExpectedRangeOrder, cats[b]) > 0)
                        => IndexIn(ExpectedRangeOrder, cats[a])
                             < IndexIn(ExpectedRangeOrder, cats[b])

\* a quotient that is a number: neither NaN nor Infinity
IsFinite(r) == r.tag = "finite"

(* C12: for an empty dataset every kind shows zero quarters, a grand total   *)
(* of count 0 and acv 0, and no derived value that is NaN; the customer-type *)
(* pivot still shows its two fixed category rows.                            *)
C12_EmptyDatasetIsTolerated ==
    (Shown /\ data = <<>>) =>
        /\ view.pivot.quarters = <<>>
        /\ view.pivot.grandTotal = [acv |-> 0, count |-> 0]
        /\ view.kind = "customer-type" => view.pivot.categories = customerTypes
        /\ \A i \in DOMAIN view.pivot.categories :
              /\ IsFinite(view.pivot.share[i])
              /\ \A j \in DOMAIN view.pivot.quarters : IsFinite(view.pivot.percentage[i][j])
        /\ IsFinite(view.summary.averageACV)
        /\ view.chart.drawn =>
              \A i \in DOMAIN view.chart.donut.label : IsFinite(view.chart.donut.label[i])

(* C13: after a failed fetch the Dashboard shows the error view, and the     *)
(* error view holds no chart and no pivot table, whether or not an earlier   *)
(* fetch had succeeded.                                                      *)
C13_FailedFetchShowsErrorOnly ==
    error # Null =>
        /\ view.screen = "error"
        /\ view.message = error
        /\ DOMAIN view = {"screen", "message"}

\* a fetch failed after an earlier fetch had returned rows
C13_Witness ==
    /\ error # Null
    /\ Len(data) > 0
    /\ dataFrom # selectedDataType
    /\ view.screen = "error"

(* C14: there is no automatic retry. A request is issued only by the fetch   *)
(* effect, the effect is scheduled only by the mount and by the user         *)
(* selecting a different kind, and once a fetch has failed no request is     *)
(* outstanding or scheduled.                                                 *)
C14_NoAutomaticRetry ==
    /\ [][(inflight' \ inflight # {}) => (effectPending /\ ~effectPending')]_vars
    /\ [][(effectPending' /\ ~effectPending) =>
            (view.screen = "dashboard" /\ selectedDataType' # selectedDataType)]_vars
    /\ [](error # Null => (inflight = {} /\ ~effectPending))

\* the fetch the user started by selecting another kind has failed
C14_Witness ==
    /\ error # Null
    /\ selectedDataType # "teams"
    /\ inflight = {}
    /\ ~effectPending
    /\ ~loading

\* the drill-down state a dialogState stands for: Closed, or Open(category, color)
DrillOf(ds) == IF ds.open THEN << "Open", ds.type, ds.color >> ELSE << "Closed" >>

CountIn(s, r) == Cardinality({ i \in DOMAIN s : s[i] = r })

(* C16: while the drill-down is open for a category, the rows of its table   *)
(* are exactly the rows of the current dataset of that category, of every    *)
(* quarter: each such row is listed as often as the dataset holds it, and no *)
(* row of another category is listed.                                        *)
C16_DrillRowsAreTheCategoryRows ==
    dialogState.open =>
        /\ \A k \in DOMAIN DialogRows : DialogRows[k] \in Range(data)
        /\ \A r \in Range(data) :
              CountIn(DialogRows, r) =
                  IF OrEmpty(r, ShownField) = dialogState.type THEN CountIn(data, r) ELSE 0

\* the acv-range drill-down lists rows of two quarters and leaves out a row of
\* another range
C16_Witness ==
    /\ dialogState.open
    /\ view.kind = "acv-range"
    /\ \E a, b \in DOMAIN DialogRows : QuarterOf(DialogRows[a]) # QuarterOf(DialogRows[b])
    /\ \E r \in Range(data) : Has(r, ShownField) /\ r \notin Range(DialogRows)

(* C17: while the drill-down is open its rows are listed by quarter          *)
(* ascending, whatever the order in which the rows arrived in the dataset.   *)
C17_DrillRowsSortedByQuarter ==
    dialogState.open =>
        \A a, b \in DOMAIN DialogRows :
            a < b => ~StrLess(QuarterOf(DialogRows[b]), QuarterOf(DialogRows[a]))

(* C18: a row without the kind's category field counts under the category    *)
(* "": in a dataset without duplicate (quarter, category) rows its count and *)
(* acv are the cell ("", quarter), its acv is the "" bar segment of the      *)
(* quarter, the acv of all such rows is the "" total of the donut, and the   *)
(* quarter totals and the grand total include the row.                       *)
C18_MissingCategoryCountsAsEmpty ==
    (Shown /\ view.kind # "customer-type" /\ ~HasDuplicates(data, ShownField)) =>
        \A k \in DOMAIN data : ~Has(data[k], ShownField) =>
            LET i == IndexIn(view.pivot.categories, <<>>)
                j == IndexIn(view.pivot.quarters, QuarterOf(data[k]))
                missing == SelectSeq(data, LAMBDA r : ~Has(r, ShownField))
                ofQuarter == SelectSeq(data, LAMBDA r : QuarterOf(r) = QuarterOf(data[k]))
            IN  /\ i > 0 /\ j > 0
                /\ view.pivot.cells[i][j] = [acv |-> data[k].acv, count |-> data[k].count]
                /\ view.chart.bar.values[j][i] = data[k].acv
                /\ view.chart.donut.value[i] = SumSeq([n \in DOMAIN missing |-> missing[n].acv])
                /\ view.pivot.quarterTotals[j].acv
                      = SumSeq([n \in DOMAIN ofQuarter |-> ofQuarter[n].acv])
                /\ view.pivot.grandTotal.acv = SumSeq([n \in DOMAIN data |-> data[n].acv])

\* the rows of d that have a quarter
WithQuarter(d) == SelectSeq(d, LAMBDA r : QuarterOf(r) # Undefined)

(* C19: a row without a quarter is dropped: the dashboard is shown, and its  *)
(* quarter columns, cells, totals and charts are those of the dataset        *)
(* without the rows that lack a quarter.                                     *)
C19_RowWithoutQuarterIsDropped ==
    Shown =>
        /\ view.pivot = TableOf(view.kind, WithQuarter(data))
        /\ view.chart = ChartOf(view.kind, WithQuarter(data))
        /\ view.summary = Summary(WithQuarter(data))

\* no element of the sequence s occurs twice
NoRepeats(s) == \A a, b \in DOMAIN s : s[a] = s[b] => a = b

(* C20: for the teams, industries and acv-range kinds the pivot has exactly  *)
(* one cell for every pair of an observed category and an observed quarter;  *)
(* the cell holds the count and acv of a row of that category and quarter,   *)
(* or count 0 and acv 0 when the dataset has no such row.                    *)
C20_ZeroFillJoin ==
    (Shown /\ view.kind # "customer-type") =>
        LET cats     == view.pivot.categories
            quarters == view.pivot.quarters
        IN  /\ Range(cats) = { OrEmpty(data[k], ShownField) : k \in DOMAIN data }
            /\ Range(quarters) = { QuarterOf(data[k]) : k \in DOMAIN data }
            /\ NoRepeats(cats) /\ NoRepeats(quarters)
            /\ DOMAIN view.pivot.cells = DOMAIN cats
            /\ \A i \in DOMAIN cats :
                  /\ DOMAIN view.pivot.cells[i] = DOMAIN quarters
                  /\ \A j \in DOMAIN quarters :
                        LET rows == { k \in DOMAIN data :
                                        /\ OrEmpty(data[k], ShownField) = cats[i]
                                        /\ QuarterOf(data[k]) = quarters[j] }
                        IN  IF rows = {}
                            THEN view.pivot.cells[i][j] = [acv |-> 0, count |-> 0]
                            ELSE \E k \in rows :
                                    view.pivot.cells[i][j]
                                        = [acv |-> data[k].acv, count |-> data[k].count]

\* the strings of s are strictly ascending in code unit order
StrictlyAscending(s) == \A a, b \in DOMAIN s : a < b => StrLess(s[a], s[b])

(* C21: the quarters of the bar chart's bands and of the pivot's columns are  *)
(* the distinct quarter values of the dataset, each once, in ascending        *)
(* lexical order, whatever the order of the input rows.                       *)
C21_QuarterUniverseSortedDistinct ==
    Shown =>
        /\ Range(view.pivot.quarters) = { QuarterOf(data[k]) : k \in DOMAIN data }
        /\ StrictlyAscending(view.pivot.quarters)
        /\ view.chart.drawn => view.chart.bar.quarters = view.pivot.quarters
        /\ \A d \in Reorderings(data) :
              /\ QuartersOf(d) = view.pivot.quarters
              /\ sortedQuarters(d) = view.pivot.quarters

\* the later quarter arrives first and a quarter arrives twice
C21_Witness ==
    /\ Drawn
    /\ Len(data) = 2
    /\ StrLess(QuarterOf(data[2]), QuarterOf(data[1]))
    /\ Len(view.chart.bar.quarters) = 2

\* the quotients r[i] are finite and add up to the quotient `total`
SumsToQuotient(r, total) ==
    /\ \A i \in DOMAIN r : r[i].tag = "finite"
    /\ \E den \in { r[i].den : i \in DOMAIN r } \cup {1} :
          /\ \A i \in DOMAIN r : r[i].den = den
          /\ SumSeq([i \in DOMAIN r |-> r[i].num]) * total.den = total.num * den

(* C22: in every percent column of the pivot the Total row shows 100%, and   *)
(* the percentages of the category rows of that column add up to it: per     *)
(* quarter the cell percentages sum to 100, and in the Total column the      *)
(* category shares of the grand total acv sum to 100.                        *)
C22_TotalRowIsSumOfPercentages ==
    Shown =>
        /\ \A j \in DOMAIN view.pivot.quarters :
              /\ view.pivot.totalRowPercentage[j] = TotalRowPercentage
              /\ SumsToQuotient([i \in DOMAIN view.pivot.categories |->
                                    view.pivot.percentage[i][j]],
                                view.pivot.totalRowPercentage[j])
        /\ view.pivot.totalRowShare = TotalRowPercentage
        /\ view.pivot.quarters # <<>> =>
              SumsToQuotient(view.pivot.share, view.pivot.totalRowShare)

(* C23: the value scale of the stacked bars runs from 0 to the largest       *)
(* quarter total acv; in each quarter the categories are stacked bottom-up   *)
(* in category order: the first segment starts at 0, the i-th spans from the *)
(* sum of the acv of the categories before it to that sum plus its own acv,  *)
(* and the top of the last segment is the quarter's total, which never       *)
(* exceeds the scale maximum.                                                *)
C23_StackedBarLayout ==
    Drawn =>
        LET bar == view.chart.bar
            n   == Len(bar.series)
        IN  /\ bar.yMax = MaxOf({ view.pivot.quarterTotals[j].acv :
                                    j \in DOMAIN view.pivot.quarterTotals })
            /\ bar.series = view.pivot.categories
            /\ \A j \in DOMAIN bar.quarters :
                  /\ \A i \in 1..n :
                        LET below == SumSeq([k \in 1..(i - 1) |-> view.pivot.cells[k][j].acv])
                        IN  /\ bar.stack[j][i][1] = below
                            /\ bar.stack[j][i][2] = below + view.pivot.cells[i][j].acv
                  /\ n > 0 =>
                        /\ bar.stack[j][1][1] = 0
                        /\ bar.stack[j][n][2] = view.pivot.quarterTotals[j].acv
                        /\ bar.stack[j][n][2] <= bar.yMax

(* C24: in the stacked bars of every kind a segment of acv 0 (zero height)   *)
(* gets an empty label, and a visible segment is labelled "$<n>K" with n its *)
(* acv in thousands.                                                         *)
C24_ZeroSegmentHasEmptyLabel ==
    Drawn =>
        \A j \in DOMAIN view.chart.bar.quarters : \A i \in DOMAIN view.chart.bar.series :
            LET value == view.chart.bar.values[j][i]
            IN  view.chart.bar.label[j][i] =
                    IF value > 0 THEN << "$", FormatThousands(value), "K" >> ELSE <<>>

(* C25: the arcs of the donut are laid out around the ring in category       *)
(* order, the order of the legend and of the stacked series, whatever the    *)
(* values: of two categories the one earlier in the order starts no later.   *)
C25_ArcsInCategoryOrder ==
    Drawn =>
        /\ view.chart.donut.types = view.chart.bar.series
        /\ \A a, b \in DOMAIN view.chart.donut.types :
              a < b => view.chart.donut.arcs[a].startAngle
                          <= view.chart.donut.arcs[b].startAngle

(* C26: once a fetch has failed the error is never cleared: error changes    *)
(* only from null to a message; while it is set the error view is shown, the *)
(* kind selector is not offered, and the render of any later successful      *)
(* response would still be the error view.                                   *)
C26_ErrorIsNeverCleared ==
    /\ [][error' # error => (error = Null /\ error' # Null)]_vars
    /\ [](error # Null =>
            /\ view.screen = "error"
            /\ ~ENABLED (\E kind \in Kinds : SelectKind(kind))
            /\ \A kind \in Kinds : \A result \in UnitResponses(kind, MaxFetchRows) :
                  Render(selectedDataType, FALSE, error, result, kind).screen = "error")

\* a fetch has failed while the Dashboard held the rows of an earlier fetch
C26_Witness ==
    /\ error # Null
    /\ view.screen = "error"
    /\ data # <<>>
    /\ Render(selectedDataType, FALSE, Null, data, dataFrom).screen = "dashboard"

(* C27: every started fetch eventually leaves the Loading state when the     *)
(* DataSource eventually answers or fails; the step that handles the answer  *)
(* leaves loading false, and either replaces data by the response and leaves *)
(* error alone, or sets error and leaves data alone.                         *)
C27_FetchLeavesLoading ==
    /\ (inflight # {}) ~> (inflight = {} /\ ~loading /\ view.screen # "loading")
    /\ [][(inflight' # inflight /\ inflight' \subseteq inflight) =>
            /\ ~loading'
            /\ \/ /\ dataFrom' \in inflight \ inflight'
                  /\ error' = error
               \/ /\ error' # Null
                  /\ data' = data /\ dataFrom' = dataFrom]_vars

\* the fetch started by selecting another kind has returned rows
C27_Witness ==
    /\ ~loading
    /\ inflight = {}
    /\ dataFrom = selectedDataType
    /\ selectedDataType # "teams"
    /\ data # <<>>

(* C28: at most one fetch is outstanding at any time. While a fetch is       *)
(* outstanding the loading view is shown and the fetch is the one of the     *)
(* selected kind; the dashboard view, the only one with the kind selector,   *)
(* is shown only when loading is false and no error is set, and the selected *)
(* kind changes only from that view, so it does not change between the start *)
(* of a fetch and the handling of its response.                              *)
C28_AtMostOneFetchOutstanding ==
    /\ [](Cardinality(inflight) <= 1)
    /\ [](inflight # {} => (inflight = {selectedDataType} /\ view.screen = "loading"))
    /\ [](view.screen = "dashboard" => (~loading /\ error = Null /\ inflight = {}))
    /\ [][selectedDataType' # selectedDataType =>
            (view.screen = "dashboard" /\ inflight = {})]_vars
    /\ [][inflight # {} => selectedDataType' = selectedDataType]_vars

\* the fetch of a second kind is outstanding after the first fetch returned rows
C28_Witness ==
    /\ inflight = {selectedDataType}
    /\ selectedDataType # "teams"
    /\ dataFrom = "teams"
    /\ data # <<>>
    /\ loading

(* C29: the total in the donut's center, the sum of the stacked bars' row    *)
(* totals over all quarters and the pivot's grand total acv are equal, and   *)
(* each category's donut total equals the category's Total-column acv of the *)
(* pivot.                                                                    *)
C29_CrossViewTotalsAgree ==
    Drawn =>
        /\ view.chart.donut.center = view.pivot.grandTotal.acv
        /\ SumSeq(view.chart.bar.total) = view.pivot.grandTotal.acv
        /\ view.chart.donut.center = SumSeq(view.chart.donut.value)
        /\ view.chart.donut.types = view.pivot.categories
        /\ \A i \in DOMAIN view.chart.donut.types :
              view.chart.donut.value[i] = view.pivot.rowTotals[i].acv

(* C30: dismissing the drill-down changes only the open flag: the selected   *)
(* category, its color and the captured rows stay as they were, nothing else *)
(* of the page changes, and the captured rows remain the rows of the         *)
(* category as filtered from the dataset at the click.                       *)
C30_DismissChangesOnlyOpen ==
    /\ [][(dialogState.open /\ ~dialogState'.open) =>
            /\ dialogState' = [dialogState EXCEPT !.open = FALSE]
            /\ dialogState'.type = dialogState.type
            /\ dialogState'.color = dialogState.color
            /\ dialogState'.data = dialogState.data
            /\ UNCHANGED <<selectedDataType, loading, error, data, dataFrom, inflight,
                           effectPending, view>>]_vars
    /\ [](dialogState # ClosedDialog =>
            dialogState.data =
                SelectSeq(data, LAMBDA d : FieldEq(d, ShownField, dialogState.type)))

\* the drill-down was dismissed and still holds the category, the color and
\* the rows of the click, which are some but not all rows of the dataset
C30_Witness ==
    /\ ~dialogState.open
    /\ dialogState.type # <<>>
    /\ dialogState.color # ""
    /\ Len(dialogState.data) >= 2
    /\ Len(dialogState.data) < Len(data)

====
